---- MODULE Spec2Model ----
(***************************************************************************)
(* Attendance bot (uroddiscordbot2.0.1.py, discordurodbot2.0.py): the      *)
(* persisted configuration, the command layer that mutates it and the      *)
(* auto-report scheduling loop (an asyncio task behind a nullable global   *)
(* handle).  Time is counted in hours, the unit of report_check_period.    *)
(***************************************************************************)
EXTENDS Integers, Sequences, FiniteSets, TLC

\* ------------------------------------------------------------------ bounds
MaxTime == 3
MaxTasks == 2
MaxMsgs == 2
MaxFaults == 1
MaxRunMsgs == 2
MaxTokens == 3

\* ------------------------------------------------------- values and inputs
None == "None"

\* config.json: absent, not parseable as JSON, a JSON object, or valid JSON
\* that is not an object (a list, a number, a string, null).
Missing == [kind |-> "missing"]
Corrupt == [kind |-> "corrupt"]
Json(obj) == [kind |-> "json", obj |-> obj]
NonObject == [kind |-> "value"]

\* An exception that leaves load_config: the module stops executing.
Raised == [raised |-> "TypeError"]

\* auto_report_task = NoHandle
NoHandle == 0

Channels == {"c1", "c2"}
\* The channels that stop resolving (and come back) in the runs explored.
Losable == {"c1"}
Periods == {1, 2}
\* Inputs of the policy commands: the members and roles they are given, and
\* the hours set_required_work_time is given.
Members == {"u1"}
Roles == {"r1"}
Hours == {4}
TaskIds == 1..MaxTasks

Keys ==
    {"required_work_time_hours", "report_check_period_hours", "applicable_roles",
     "auto_report_enabled", "auto_report_channel", "command_access_users",
     "command_access_roles", "whitelist"}

default_config ==
    [required_work_time_hours |-> 8,
     report_check_period_hours |-> 24,
     applicable_roles |-> <<>>,
     auto_report_enabled |-> FALSE,
     auto_report_channel |-> None,
     command_access_users |-> <<>>,
     command_access_roles |-> <<>>,
     whitelist |-> <<>>]

\* The actors of the guild: an administrator, and a member holding role r1
\* (the member the access and whitelist commands are given).
Actors ==
    {[id |-> "u0", administrator |-> TRUE, roles |-> {}],
     [id |-> "u1", administrator |-> FALSE, roles |-> {"r1"}]}

\* What config.json can hold when the process first starts: no file (fresh
\* install), or a record left by an earlier run (here one that lacks the
\* destination key, and a complete one).
InitFiles ==
    {Missing,
     Json([auto_report_enabled |-> TRUE, report_check_period_hours |-> 2]),
     Json([default_config EXCEPT !.auto_report_enabled = TRUE,
                                 !.auto_report_channel = "c1",
                                 !.report_check_period_hours = 1])}

SaveOutcomes == {"ok", "open_failed", "write_failed"}

VARIABLES
    config,            \* the global dict `config`
    file,              \* contents of config.json
    auto_report_task,  \* the global task handle (NoHandle or a task id)
    tasks,             \* the asyncio tasks running auto_report_task_func
    now,               \* wall clock, hours
    resolvable,        \* channel ids bot.get_channel resolves
    history,           \* messages posted in the guild's text channels
    scanCount,         \* per message: scheduled cycles whose fetch returned it
    phase,             \* "loaded" (module executed), "ready" (on_ready ran)
                       \* or "crashed" (module execution raised)
    response,          \* what the last interaction was answered with
    faults,            \* save_config calls that have raised so far
    report,            \* the generate_report call in progress, or its result
    scheduled,         \* the generate_report call of a scheduled cycle that
                       \* runs alongside it, or its result
    inter              \* the interaction of a deferring command: how far its
                       \* handler is and what the invoker has been sent

vars ==
    <<config, file, auto_report_task, tasks, now, resolvable, history,
      scanCount, phase, response, faults, report, scheduled, inter>>

\* ---------------------------------------------------------------- helpers
Contains(s, x) == \E i \in 1..Len(s) : s[i] = x

Min(S) == CHOOSE x \in S : \A y \in S : x <= y

\* list.remove(x): the first occurrence goes.
Remove(s, x) ==
    LET i == Min({j \in 1..Len(s) : s[j] = x})
    IN  SubSeq(s, 1, i - 1) \o SubSeq(s, i + 1, Len(s))

\* ------------------------------------------------------------ ConfigStore
\* Mutant: the stored record is ignored.
load_config_defaults(f) == default_config

\* Mutant: only the recognized keys of the stored object are taken over.
load_config_known_keys(f) ==
    CASE f.kind \in {"missing", "corrupt"} -> default_config
      [] f.kind = "value" -> Raised
      [] f.kind = "json" ->
            [k \in Keys |->
                IF k \in DOMAIN f.obj THEN f.obj[k] ELSE default_config[k]]

\* json.load, then every default key the stored object lacks is filled in;
\* a missing file or a JSONDecodeError gives the defaults.  On a value that
\* is not a dict, `key not in config` or `config[key] = value` raises
\* TypeError, which nothing catches.
load_config(f) ==
    CASE f.kind \in {"missing", "corrupt"} -> default_config
      [] f.kind = "value" -> Raised
      [] f.kind = "json" ->
            [k \in (DOMAIN f.obj) \cup Keys |->
                IF k \in DOMAIN f.obj THEN f.obj[k] ELSE default_config[k]]

\* Mutant: the write is buffered and never reaches the file.
save_config_buffered(cfg, outcome) == file

\* open(CONFIG_FILE, "w") then json.dump.  open() can raise before the file
\* is touched; once it has truncated the file, a write that fails or is cut
\* short (the process stops) leaves a truncated record behind.
save_config(cfg, outcome) ==
    CASE outcome = "ok" -> Json(cfg)
      [] outcome = "open_failed" -> file
      [] outcome = "write_failed" -> Corrupt

\* A save_config call of a command handler: the file after it, and whether
\* it raised.
Save(cfg, outcome) ==
    /\ outcome = "ok" \/ faults < MaxFaults
    /\ file' = save_config(cfg, outcome)
    /\ faults' = IF outcome = "ok" THEN faults ELSE faults + 1

\* -------------------------------------------------------- EligibilityPolicy
\* Mutant: the check reads the stored record, not the dict in memory.
allowed_check_stored(a) ==
    \/ a.administrator
    \/ Contains(load_config(file).command_access_users, a.id)
    \/ \E r \in a.roles : Contains(load_config(file).command_access_roles, r)

allowed_check(a) ==
    \/ a.administrator
    \/ Contains(config.command_access_users, a.id)
    \/ \E r \in a.roles : Contains(config.command_access_roles, r)

\* ------------------------------------------------------------------ tasks
NoTask ==
    [pc |-> "none", must_cancel |-> FALSE, period |-> 0, wakeAt |-> 0,
     channel |-> None, after |-> -1, pending |-> {},
     skipped |-> "no", disable_invoked |-> FALSE]

NewTask == [NoTask EXCEPT !.pc = "start"]

LivePc == {"start", "sleep", "fetch", "ack", "publish", "cancelling"}
DonePc == {"done", "failed", "cancelled"}

\* Task.done()
done(tk) == tk.pc \in DonePc

\* A finished task nobody references is garbage.
Collect(tks, handle) ==
    [t \in TaskIds |-> IF done(tks[t]) /\ handle # t THEN NoTask ELSE tks[t]]

\* A loop that can still fetch or publish.
Live(tk) == tk.pc \in LivePc /\ ~tk.must_cancel

\* A task the event loop will run without waiting for time to pass.
Ready(tk) ==
    \/ tk.pc = "start"
    \/ tk.pc \in LivePc /\ tk.must_cancel
    \/ tk.pc = "sleep" /\ tk.wakeAt <= now

\* `while config.get("auto_report_enabled")`: read the period and sleep, or
\* fall out of the loop.
EnterLoop(tk) ==
    IF config.auto_report_enabled
    THEN [tk EXCEPT !.pc = "sleep",
                    !.period = config.report_check_period_hours,
                    !.wakeAt = now + config.report_check_period_hours,
                    !.channel = None, !.after = -1, !.pending = {}]
    ELSE [NoTask EXCEPT !.pc = "done"]

\* Mutant: the task is created without looking at the handle.
StartLoopAlways(tks) ==
    LET freed == Collect(tks, auto_report_task)
        free == {t \in TaskIds : freed[t].pc = "none"}
    IN  /\ free # {}
        /\ auto_report_task' = Min(free)
        /\ tasks' = [freed EXCEPT ![Min(free)] = NewTask]

\* bot.loop.create_task(auto_report_task_func()) behind the
\* `auto_report_task is None or auto_report_task.done()` test.
StartLoopIfIdle(tks) ==
    IF auto_report_task = NoHandle \/ done(tks[auto_report_task])
    THEN LET freed == Collect(tks, NoHandle)
             free == {t \in TaskIds : freed[t].pc = "none"}
         IN  /\ free # {}
             /\ auto_report_task' = Min(free)
             /\ tasks' = [freed EXCEPT ![Min(free)] = NewTask]
    ELSE /\ auto_report_task' = auto_report_task
         /\ tasks' = tks

\* ------------------------------------------------- bookkeeping for claims
\* disable_invoked: disable_auto_report was invoked while this loop slept
\* (and no enable_auto_report since); skipped: the loop skipped a cycle for
\* want of a destination ("skipped"), and its latest cycle published after
\* that ("recovered").
MarkDisable(tks) ==
    [t \in TaskIds |->
        IF tks[t].pc = "sleep" /\ ~tks[t].must_cancel
        THEN [tks[t] EXCEPT !.disable_invoked = TRUE]
        ELSE tks[t]]

ClearDisable(tks) ==
    [t \in TaskIds |-> [tks[t] EXCEPT !.disable_invoked = FALSE]]

\* Task.cancel(): a finished task is left alone, a pending one gets
\* CancelledError thrown in at its next step.  Nothing the coroutine holds
\* is read again, so its locals are dropped here.
cancel(tks, t) ==
    IF done(tks[t])
    THEN tks
    ELSE [tks EXCEPT ![t] = [NoTask EXCEPT !.pc = "cancelling", !.must_cancel = TRUE]]

\* ------------------------------------------------------- report pipeline
\* guild.members of the guild the report channel belongs to.
Roster ==
    <<[id |-> "A", bot |-> FALSE, roles |-> {}],
      [id |-> "B", bot |-> FALSE, roles |-> {"r1"}],
      [id |-> "C", bot |-> TRUE, roles |-> {"r1"}]>>

RosterIds == {Roster[i].id : i \in 1..Len(Roster)}

\* msg.content as its whitespace-separated tokens: words, and numbers
\* written as digits with an optional one-digit fraction after "." or ",".
Word(w) == [kind |-> "word", word |-> w, whole |-> 0, sep |-> "", frac |-> 0]
Num(w, sep, f) == [kind |-> "num", word |-> "", whole |-> w, sep |-> sep, frac |-> f]

\* The words of the 2.0 pattern (transliterated): rabotal, rabotala,
\* otrabotal, otrabotala, then the number, then chas, chasa or chasov.
WorkVerbs == {"rabotal", "rabotala", "otrabotal", "otrabotala"}
HourWords == {"chas", "chasa", "chasov"}

\* The message bodies of the runs explored.
Worked9 == <<Word("worked"), Num(9, "", 0), Word("hours")>>
Worked3 == <<Word("worked"), Num(3, "", 0), Word("hours")>>
Otrabotal7c5 == <<Word("otrabotal"), Num(7, ",", 5), Word("chasov")>>
Hello == <<Word("hello")>>

Texts == {Worked9, Worked3, Otrabotal7c5, Hello}

\* The messages a history fetch can return: author id and content.
Messages ==
    {[author |-> "A", content |-> Worked9],
     [author |-> "A", content |-> Hello],
     [author |-> "B", content |-> Worked3],
     [author |-> "B", content |-> Otrabotal7c5],
     [author |-> "C", content |-> Worked9]}

SeqsUpTo(S, n) == UNION {[1..k -> S] : k \in 0..n}

\* The two variants' `pattern`: "first_number" is r"(\d+(?:[.,]\d+)?)"
\* (uroddiscordbot2.0.1.py), "work_verb" the verb-anchored one
\* (discordurodbot2.0.py).
Rules == {"first_number", "work_verb"}

NoMatch == [found |-> FALSE, whole |-> 0, frac |-> 0]

\* Mutant: where no number is found, a work verb alone counts as one hour.
search_verb_alone(rule, content) ==
    LET at == {i \in 1..Len(content) : content[i].kind = "num"}
        verbs == {i \in 1..Len(content) :
                    content[i].kind = "word" /\ content[i].word \in WorkVerbs}
    IN  IF at # {}
        THEN [found |-> TRUE, whole |-> content[Min(at)].whole,
              frac |-> content[Min(at)].frac]
        ELSE IF verbs # {}
        THEN [found |-> TRUE, whole |-> 1, frac |-> 0]
        ELSE NoMatch

\* re.search: the leftmost match, group(1) being the number.
search(rule, content) ==
    LET at == IF rule = "first_number"
              THEN {i \in 1..Len(content) : content[i].kind = "num"}
              ELSE {i \in 2..(Len(content) - 1) :
                      /\ content[i].kind = "num"
                      /\ content[i - 1].kind = "word"
                      /\ content[i - 1].word \in WorkVerbs
                      /\ content[i + 1].kind = "word"
                      /\ content[i + 1].word \in HourWords}
    IN  IF at = {}
        THEN NoMatch
        ELSE [found |-> TRUE, whole |-> content[Min(at)].whole,
              frac |-> content[Min(at)].frac]

\* Mutant: the hours are not converted to minutes.
minutes_as_hours(match) == match.whole

\* float(hours_str.replace(",", ".")) * 60
minutes(match) == match.whole * 60 + match.frac * 6

\* work_times.get(id, 0)
Get(work_times, id) == IF id \in DOMAIN work_times THEN work_times[id] ELSE 0

\* work_times[id] = work_times.get(id, 0) + minutes
Add(work_times, id, mins) ==
    [a \in (DOMAIN work_times) \cup {id} |->
        Get(work_times, a) + (IF a = id THEN mins ELSE 0)]

\* Mutant: an empty applicable_roles admits nobody.
is_applicable_strict(member) ==
    \E r \in member.roles : Contains(config.applicable_roles, r)

is_applicable(member) ==
    IF Len(config.applicable_roles) = 0
    THEN TRUE
    ELSE \E r \in member.roles : Contains(config.applicable_roles, r)

\* Mutant: bots are not skipped.
listed_with_bots(member) == is_applicable(member)

\* Mutant: the report skips whitelisted members, as mention_not_in_channel does.
listed_unless_whitelisted(member) ==
    ~(member.bot \/ ~is_applicable(member) \/ Contains(config.whitelist, member.id))

\* `if member.bot or not is_applicable(member): continue`
listed(member) == ~(member.bot \/ ~is_applicable(member))

\* Mutant: the threshold is exclusive.
bucket_of_strict(total, required_minutes) ==
    IF total > required_minutes THEN "worked_enough"
    ELSE IF total > 0 THEN "worked_insufficient"
    ELSE "not_worked"

\* The if / elif / else over a member's total.
bucket_of(total, required_minutes) ==
    IF total >= required_minutes THEN "worked_enough"
    ELSE IF total > 0 THEN "worked_insufficient"
    ELSE "not_worked"

\* One of the three lists generate_report builds, in roster order, each
\* entry with the total printed next to the mention.
Bucket(work_times, name) ==
    LET required_minutes == config.required_work_time_hours * 60
        Test(m) == listed(m) /\ bucket_of(Get(work_times, m.id), required_minutes) = name
        ms == SelectSeq(Roster, Test)
    IN  [i \in 1..Len(ms) |-> [id |-> ms[i].id, total |-> Get(work_times, ms[i].id)]]

NoReport ==
    [pc |-> "idle", rule |-> "first_number", messages |-> <<>>, i |-> 0,
     work_times |-> <<>>, outcomes |-> <<>>, required |-> 0,
     worked_enough |-> <<>>, worked_insufficient |-> <<>>, not_worked |-> <<>>]

\* Mutant: the text prints the default threshold, not the one classified with.
Finish_prints_default(r) ==
    [r EXCEPT !.pc = "done",
              !.required = default_config.required_work_time_hours,
              !.worked_enough = Bucket(r.work_times, "worked_enough"),
              !.worked_insufficient = Bucket(r.work_times, "worked_insufficient"),
              !.not_worked = Bucket(r.work_times, "not_worked")]

\* The code after `for msg in messages`: no await up to `return report`.
Finish(r) ==
    [r EXCEPT !.pc = "done",
              !.required = config.required_work_time_hours,
              !.worked_enough = Bucket(r.work_times, "worked_enough"),
              !.worked_insufficient = Bucket(r.work_times, "worked_insufficient"),
              !.not_worked = Bucket(r.work_times, "not_worked")]

Advance(r) == IF r.i > Len(r.messages) THEN Finish(r) ELSE r

\* generate_report up to the return of report_channel.history(...).flatten():
\* work_times is a fresh dict of this call.
fetched(rule, msgs) ==
    Advance([NoReport EXCEPT !.pc = "scan", !.rule = rule, !.messages = msgs, !.i = 1])

\* One iteration of `for msg in messages` of the call r.  accept_ok:
\* add_reaction of the accepting mark completes; reject_ok: add_reaction of
\* the rejecting mark completes.  The accepting mark is placed inside the
\* try, so its failure leads to the rejecting one; a failure of the
\* rejecting mark leaves generate_report.
acked(r, accept_ok, reject_ok) ==
    LET msg == r.messages[r.i]
        match == search(r.rule, msg.content)
        counted == IF match.found
                   THEN [r EXCEPT !.work_times = Add(@, msg.author, minutes(match))]
                   ELSE r
        mark == IF match.found /\ accept_ok THEN "accepted"
                ELSE IF reject_ok THEN "rejected"
                ELSE "raised"
    IN  IF mark = "raised"
        THEN [counted EXCEPT !.pc = "failed"]
        ELSE Advance([counted EXCEPT !.outcomes = Append(@, mark), !.i = @ + 1])

\* The call made for check_reports.
report_fetch(rule, msgs) ==
    /\ report.pc = "idle"
    /\ report' = fetched(rule, msgs)
    /\ UNCHANGED <<config, file, auto_report_task, tasks, now, resolvable,
                   history, scanCount, phase, response, faults, scheduled, inter>>

report_ack(accept_ok, reject_ok) ==
    /\ report.pc = "scan"
    /\ report' = acked(report, accept_ok, reject_ok)
    /\ UNCHANGED <<config, file, auto_report_task, tasks, now, resolvable,
                   history, scanCount, phase, response, faults, scheduled, inter>>

\* generate_report has returned its text to the caller, or raised to it.
report_return ==
    /\ report.pc \in {"done", "failed"}
    /\ report' = NoReport
    /\ UNCHANGED <<config, file, auto_report_task, tasks, now, resolvable,
                   history, scanCount, phase, response, faults, scheduled, inter>>

\* Mutant: the scheduled call adds to the totals of the call in progress.
scheduled_fetch_shared(rule, msgs) ==
    /\ scheduled.pc = "idle"
    /\ scheduled' = Advance([NoReport EXCEPT !.pc = "scan", !.rule = rule,
                                             !.messages = msgs, !.i = 1,
                                             !.work_times = report.work_times])
    /\ UNCHANGED <<config, file, auto_report_task, tasks, now, resolvable,
                   history, scanCount, phase, response, faults, report, inter>>

\* The call made by auto_report_task_func while the one above is between
\* its awaits.
scheduled_fetch(rule, msgs) ==
    /\ scheduled.pc = "idle"
    /\ scheduled' = fetched(rule, msgs)
    /\ UNCHANGED <<config, file, auto_report_task, tasks, now, resolvable,
                   history, scanCount, phase, response, faults, report, inter>>

scheduled_ack(accept_ok, reject_ok) ==
    /\ scheduled.pc = "scan"
    /\ scheduled' = acked(scheduled, accept_ok, reject_ok)
    /\ UNCHANGED <<config, file, auto_report_task, tasks, now, resolvable,
                   history, scanCount, phase, response, faults, report, inter>>

scheduled_return ==
    /\ scheduled.pc \in {"done", "failed"}
    /\ scheduled' = NoReport
    /\ UNCHANGED <<config, file, auto_report_task, tasks, now, resolvable,
                   history, scanCount, phase, response, faults, report, inter>>

\* ----------------------------------------------------------- interactions
\* inter.response and inter.followup of one ApplicationCommandInteraction.
\* initial: the initial response made so far; initial_calls: how often
\* response.defer or response.send_message was called; sent: what the
\* invoker has received, in order; allowed: allowed_check passed.
NoInteraction ==
    [cmd |-> "none", allowed |-> FALSE, pc |-> "idle", initial |-> "none",
     initial_calls |-> 0, sent |-> <<>>, raised |-> FALSE]

\* inter.response.is_done()
is_done(i) == i.initial # "none"

\* inter.response.defer(): the initial response can be made once; a second
\* one raises InteractionResponded.
response_defer(i) ==
    IF is_done(i)
    THEN [i EXCEPT !.initial_calls = @ + 1, !.raised = TRUE]
    ELSE [i EXCEPT !.initial_calls = @ + 1, !.initial = "deferred"]

\* inter.response.send_message(content): likewise an initial response.
response_send_message(i, content) ==
    IF is_done(i)
    THEN [i EXCEPT !.initial_calls = @ + 1, !.raised = TRUE]
    ELSE [i EXCEPT !.initial_calls = @ + 1, !.initial = "message",
                   !.sent = Append(@, content)]

\* inter.followup.send(content): needs the initial response to exist.
followup_send(i, content) ==
    IF is_done(i)
    THEN [i EXCEPT !.sent = Append(@, content)]
    ELSE [i EXCEPT !.raised = TRUE]

\* The on_slash_command_error in force (the second definition replaces the
\* first): defer unless already responded, then the error text as followup.
on_slash_command_error(i) ==
    LET d == IF ~is_done(i) THEN response_defer(i) ELSE i
    IN  followup_send([d EXCEPT !.raised = FALSE], "error")

\* The handler has ended: what it raised goes to on_slash_command_error.
Answered(i) ==
    [(IF i.raised THEN on_slash_command_error(i) ELSE i) EXCEPT !.pc = "answered"]

\* A command is invoked; a failed allowed_check raises CheckFailure before
\* the handler runs, otherwise the handler starts with response.defer.
invoke(a, cmd) ==
    /\ inter.pc = "idle"
    /\ report.pc = "idle"
    /\ inter' = IF allowed_check(a)
                THEN [response_defer([NoInteraction EXCEPT !.cmd = cmd, !.allowed = TRUE])
                         EXCEPT !.pc = "deferred"]
                ELSE Answered([NoInteraction EXCEPT !.cmd = cmd, !.raised = TRUE])
    /\ UNCHANGED <<config, file, auto_report_task, tasks, now, resolvable,
                   history, scanCount, phase, response, faults, report, scheduled>>

\* check_reports: generate_report is called; its iterations are report_ack.
check_reports_fetch(rule, msgs) ==
    /\ inter.cmd = "check_reports"
    /\ inter.pc = "deferred"
    /\ report' = fetched(rule, msgs)
    /\ inter' = [inter EXCEPT !.pc = "report"]
    /\ UNCHANGED <<config, file, auto_report_task, tasks, now, resolvable,
                   history, scanCount, phase, response, faults, scheduled>>

\* check_reports: generate_report returned and the text is handed to
\* inter.response.send_message, or generate_report raised.
check_reports_send ==
    /\ inter.cmd = "check_reports"
    /\ inter.pc = "report"
    /\ report.pc \in {"done", "failed"}
    /\ inter' = Answered(IF report.pc = "done"
                         THEN response_send_message(inter, "report")
                         ELSE [inter EXCEPT !.raised = TRUE])
    /\ report' = NoReport
    /\ UNCHANGED <<config, file, auto_report_task, tasks, now, resolvable,
                   history, scanCount, phase, response, faults, scheduled>>

\* mention_not_in_channel without a channel argument; in_voice: the members
\* whose member.voice is not None.
not_in_channel(in_voice) ==
    SelectSeq(Roster,
              LAMBDA m : /\ m.id \notin in_voice
                         /\ ~m.bot
                         /\ ~Contains(config.whitelist, m.id)
                         /\ is_applicable(m))

\* mention_not_in_channel after its defer: the "all present" text through
\* inter.response.send_message, or the mentions through inter.followup.send.
mention_not_in_channel(in_voice) ==
    /\ inter.cmd = "mention_not_in_channel"
    /\ inter.pc = "deferred"
    /\ inter' = Answered(IF not_in_channel(in_voice) = <<>>
                         THEN response_send_message(inter, "all_present")
                         ELSE followup_send(inter, "mentions"))
    /\ UNCHANGED <<config, file, auto_report_task, tasks, now, resolvable,
                   history, scanCount, phase, response, faults, report, scheduled>>

\* The interaction is over; the next one is a new object.
interaction_end ==
    /\ inter.pc = "answered"
    /\ inter' = NoInteraction
    /\ UNCHANGED <<config, file, auto_report_task, tasks, now, resolvable,
                   history, scanCount, phase, response, faults, report, scheduled>>

\* ---------------------------------------------------------------- startup
Init ==
    /\ file \in InitFiles
    /\ config = load_config(file)
    /\ auto_report_task = NoHandle
    /\ tasks = [t \in TaskIds |-> NoTask]
    /\ now = 0
    /\ resolvable = Channels
    /\ history = {}
    /\ scanCount = [m \in {} |-> 0]
    /\ phase = "loaded"
    /\ response = "none"
    /\ faults = 0
    /\ report = NoReport
    /\ scheduled = NoReport
    /\ inter = NoInteraction

\* The process stops and is started again: module-level code runs anew.
Restart ==
    /\ config' = load_config(file)
    /\ auto_report_task' = NoHandle
    /\ tasks' = [t \in TaskIds |-> NoTask]
    /\ phase' = IF load_config(file) = Raised THEN "crashed" ELSE "loaded"
    /\ response' = "none"
    /\ report' = NoReport
    /\ scheduled' = NoReport
    /\ inter' = NoInteraction
    /\ UNCHANGED <<file, now, resolvable, history, scanCount, faults>>

on_ready ==
    /\ phase # "crashed"
    /\ phase' = "ready"
    /\ IF config.auto_report_enabled
       THEN StartLoopIfIdle(tasks)
       ELSE UNCHANGED <<auto_report_task, tasks>>
    /\ UNCHANGED <<config, file, now, resolvable, history, scanCount, response, faults, report, scheduled, inter>>

\* --------------------------------------------------------------- commands
\* Mutant: the task is created before the configuration is saved.
enable_auto_report_start_first(a, ch, sv) ==
    /\ allowed_check(a)
    /\ LET cfg == [config EXCEPT !.auto_report_enabled = TRUE,
                                 !.auto_report_channel = ch]
       IN  /\ config' = cfg
           /\ Save(cfg, sv)
    /\ StartLoopIfIdle(ClearDisable(tasks))
    /\ response' = IF sv = "ok" THEN "sent" ELSE "error"
    /\ UNCHANGED <<now, resolvable, history, scanCount, phase, report, scheduled, inter>>

\* Mutant: the command runs without its check.
enable_auto_report_unchecked(a, ch, sv) ==
    /\ LET cfg == [config EXCEPT !.auto_report_enabled = TRUE,
                                 !.auto_report_channel = ch]
       IN  /\ config' = cfg
           /\ Save(cfg, sv)
    /\ IF sv = "ok"
       THEN /\ StartLoopIfIdle(ClearDisable(tasks))
            /\ response' = "sent"
       ELSE /\ tasks' = ClearDisable(tasks)
            /\ auto_report_task' = auto_report_task
            /\ response' = "error"
    /\ UNCHANGED <<now, resolvable, history, scanCount, phase, report, scheduled, inter>>

\* Every command carries @commands.check(allowed_check): the body runs only
\* for an actor the check admits.
enable_auto_report(a, ch, sv) ==
    /\ allowed_check(a)
    /\ LET cfg == [config EXCEPT !.auto_report_enabled = TRUE,
                                 !.auto_report_channel = ch]
       IN  /\ config' = cfg
           /\ Save(cfg, sv)
    /\ IF sv = "ok"
       THEN /\ StartLoopIfIdle(ClearDisable(tasks))
            /\ response' = "sent"
       ELSE /\ tasks' = ClearDisable(tasks)
            /\ auto_report_task' = auto_report_task
            /\ response' = "error"
    /\ UNCHANGED <<now, resolvable, history, scanCount, phase, report, scheduled, inter>>

\* Mutant: the loop is torn down before the configuration is saved.
disable_auto_report_cancel_first(a, sv) ==
    /\ allowed_check(a)
    /\ LET cfg == [config EXCEPT !.auto_report_enabled = FALSE]
       IN  /\ config' = cfg
           /\ Save(cfg, sv)
    /\ IF auto_report_task # NoHandle
       THEN tasks' = Collect(cancel(MarkDisable(tasks), auto_report_task), NoHandle)
       ELSE tasks' = MarkDisable(tasks)
    /\ auto_report_task' = NoHandle
    /\ response' = IF sv = "ok" THEN "sent" ELSE "error"
    /\ UNCHANGED <<now, resolvable, history, scanCount, phase, report, scheduled, inter>>

disable_auto_report(a, sv) ==
    /\ allowed_check(a)
    /\ LET cfg == [config EXCEPT !.auto_report_enabled = FALSE]
       IN  /\ config' = cfg
           /\ Save(cfg, sv)
    /\ IF sv = "ok"
       THEN /\ IF auto_report_task # NoHandle
               THEN tasks' = Collect(cancel(MarkDisable(tasks), auto_report_task), NoHandle)
               ELSE tasks' = MarkDisable(tasks)
            /\ auto_report_task' = NoHandle
            /\ response' = "sent"
       ELSE /\ tasks' = MarkDisable(tasks)
            /\ auto_report_task' = auto_report_task
            /\ response' = "error"
    /\ UNCHANGED <<now, resolvable, history, scanCount, phase, report, scheduled, inter>>

set_report_check_period(a, hours, sv) ==
    /\ allowed_check(a)
    /\ LET cfg == [config EXCEPT !.report_check_period_hours = hours]
       IN  /\ config' = cfg
           /\ Save(cfg, sv)
    /\ response' = IF sv = "ok" THEN "sent" ELSE "error"
    /\ UNCHANGED <<auto_report_task, tasks, now, resolvable, history, scanCount, phase, report, scheduled, inter>>

set_required_work_time(a, hours, sv) ==
    /\ allowed_check(a)
    /\ LET cfg == [config EXCEPT !.required_work_time_hours = hours]
       IN  /\ config' = cfg
           /\ Save(cfg, sv)
    /\ response' = IF sv = "ok" THEN "sent" ELSE "error"
    /\ UNCHANGED <<auto_report_task, tasks, now, resolvable, history, scanCount, phase, report, scheduled, inter>>

\* `if x not in lst: lst.append(x); config[key] = lst; save_config(config)`,
\* else only the "already there" answer.
ListAdd(a, key, x, sv) ==
    /\ allowed_check(a)
    /\ IF ~Contains(config[key], x)
       THEN /\ LET cfg == [config EXCEPT ![key] = Append(@, x)]
               IN  /\ config' = cfg
                   /\ Save(cfg, sv)
            /\ response' = IF sv = "ok" THEN "sent" ELSE "error"
       ELSE /\ sv = "ok"
            /\ response' = "sent"
            /\ UNCHANGED <<config, file, faults>>
    /\ UNCHANGED <<auto_report_task, tasks, now, resolvable, history, scanCount, phase, report, scheduled, inter>>

\* `if x in lst: lst.remove(x); config[key] = lst; save_config(config)`,
\* else only the "not found" answer.
ListRemove(a, key, x, sv) ==
    /\ allowed_check(a)
    /\ IF Contains(config[key], x)
       THEN /\ LET cfg == [config EXCEPT ![key] = Remove(@, x)]
               IN  /\ config' = cfg
                   /\ Save(cfg, sv)
            /\ response' = IF sv = "ok" THEN "sent" ELSE "error"
       ELSE /\ sv = "ok"
            /\ response' = "sent"
            /\ UNCHANGED <<config, file, faults>>
    /\ UNCHANGED <<auto_report_task, tasks, now, resolvable, history, scanCount, phase, report, scheduled, inter>>

whitelist_add_cmd(a, member, sv) == ListAdd(a, "whitelist", member, sv)

whitelist_remove_cmd(a, member, sv) == ListRemove(a, "whitelist", member, sv)

add_applicable_role(a, role, sv) == ListAdd(a, "applicable_roles", role, sv)

remove_applicable_role(a, role, sv) == ListRemove(a, "applicable_roles", role, sv)

grant_access_user(a, member, sv) == ListAdd(a, "command_access_users", member, sv)

revoke_access_user(a, member, sv) == ListRemove(a, "command_access_users", member, sv)

grant_access_role(a, role, sv) == ListAdd(a, "command_access_roles", role, sv)

revoke_access_role(a, role, sv) == ListRemove(a, "command_access_roles", role, sv)

\* A failed check raises CheckFailure; on_slash_command_error answers it.
denied(a) ==
    /\ ~allowed_check(a)
    /\ response' = "denied"
    /\ UNCHANGED <<config, file, auto_report_task, tasks, now, resolvable,
                   history, scanCount, phase, faults, report, scheduled, inter>>

\* ------------------------------------------------- auto_report_task_func
Step(t, tk) ==
    /\ tasks' = Collect([tasks EXCEPT ![t] = tk], auto_report_task)
    /\ UNCHANGED <<config, file, auto_report_task, now, resolvable, history,
                   phase, response, faults, report, scheduled, inter>>

\* CancelledError is thrown in at the await the task is suspended on (or at
\* its first step); nothing in the coroutine catches it.
task_cancelled(t) ==
    /\ tasks[t].pc \in LivePc
    /\ tasks[t].must_cancel
    /\ Step(t, [NoTask EXCEPT !.pc = "cancelled"])
    /\ UNCHANGED scanCount

task_start(t) ==
    /\ tasks[t].pc = "start"
    /\ ~tasks[t].must_cancel
    /\ Step(t, EnterLoop(tasks[t]))
    /\ UNCHANGED scanCount

\* Mutant: an unresolved destination ends the loop (`return` for `continue`).
task_wake_return(t) ==
    /\ tasks[t].pc = "sleep"
    /\ ~tasks[t].must_cancel
    /\ tasks[t].wakeAt <= now
    /\ LET tk == tasks[t]
           channel_id == config.auto_report_channel
       IN  IF channel_id = None \/ channel_id \notin resolvable
           THEN Step(t, [NoTask EXCEPT !.pc = "done"])
           ELSE Step(t, [tk EXCEPT !.pc = "fetch",
                                   !.wakeAt = 0,
                                   !.channel = channel_id,
                                   !.after = now - tk.period,
                                   !.skipped = IF tk.skipped = "recovered"
                                               THEN "no" ELSE tk.skipped])
    /\ UNCHANGED scanCount

\* Mutant: the window is computed from the period in config at the wake.
task_wake_config_period(t) ==
    /\ tasks[t].pc = "sleep"
    /\ ~tasks[t].must_cancel
    /\ tasks[t].wakeAt <= now
    /\ LET tk == tasks[t]
           channel_id == config.auto_report_channel
       IN  IF channel_id = None \/ channel_id \notin resolvable
           THEN Step(t, EnterLoop([tk EXCEPT !.skipped = "skipped"]))
           ELSE Step(t, [tk EXCEPT !.pc = "fetch",
                                   !.wakeAt = 0,
                                   !.channel = channel_id,
                                   !.after = now - config.report_check_period_hours,
                                   !.skipped = IF tk.skipped = "recovered"
                                               THEN "no" ELSE tk.skipped])
    /\ UNCHANGED scanCount

\* asyncio.sleep returns: resolve the destination, then either `continue`
\* or enter generate_report up to its first await (the history fetch).
task_wake(t) ==
    /\ tasks[t].pc = "sleep"
    /\ ~tasks[t].must_cancel
    /\ tasks[t].wakeAt <= now
    /\ LET tk == tasks[t]
           channel_id == config.auto_report_channel
       IN  IF channel_id = None \/ channel_id \notin resolvable
           THEN Step(t, EnterLoop([tk EXCEPT !.skipped = "skipped"]))
           ELSE Step(t, [tk EXCEPT !.pc = "fetch",
                                   !.wakeAt = 0,
                                   !.channel = channel_id,
                                   !.after = now - tk.period,
                                   !.skipped = IF tk.skipped = "recovered"
                                               THEN "no" ELSE tk.skipped])
    /\ UNCHANGED scanCount

\* report_channel.history(after=after_time).flatten() completes or raises.
\* With no message the for loop over messages has no await and the report
\* is ready for channel.send at once.
task_fetch(t, ok) ==
    /\ tasks[t].pc = "fetch"
    /\ ~tasks[t].must_cancel
    /\ LET tk == tasks[t]
           messages == {m \in history : m.channel = tk.channel /\ m.ts > tk.after}
       IN  IF ok
           THEN /\ Step(t, [tk EXCEPT !.pc = IF messages = {} THEN "publish" ELSE "ack",
                                      !.pending = messages])
                /\ scanCount' = [m \in history |->
                                   IF m \in messages THEN scanCount[m] + 1
                                   ELSE scanCount[m]]
           ELSE /\ Step(t, [NoTask EXCEPT !.pc = "failed"])
                /\ UNCHANGED scanCount

\* One iteration of `for msg in messages`: the add_reaction of the oldest
\* message still pending completes, or raises out of generate_report.
task_ack(t, ok) ==
    /\ tasks[t].pc = "ack"
    /\ ~tasks[t].must_cancel
    /\ LET tk == tasks[t]
           msg == CHOOSE m \in tk.pending : \A o \in tk.pending : m.ts <= o.ts
           rest == tk.pending \ {msg}
       IN  IF ok
           THEN Step(t, [tk EXCEPT !.pc = IF rest = {} THEN "publish" ELSE "ack",
                                   !.pending = rest])
           ELSE Step(t, [NoTask EXCEPT !.pc = "failed"])
    /\ UNCHANGED scanCount

\* channel.send(report) completes (back to the top of the loop) or raises.
task_publish(t, ok) ==
    /\ tasks[t].pc = "publish"
    /\ ~tasks[t].must_cancel
    /\ LET tk == tasks[t]
       IN  IF ok
           THEN Step(t, EnterLoop([tk EXCEPT !.skipped =
                                     IF tk.skipped = "no" THEN "no" ELSE "recovered"]))
           ELSE Step(t, [NoTask EXCEPT !.pc = "failed"])
    /\ UNCHANGED scanCount

\* ------------------------------------------------------------ environment
\* A scheduling loop has begun the sleep of its first cycle: whatever is
\* posted from now on is newer than the start of its first window.
Watching ==
    \E t \in TaskIds :
        Live(tasks[t]) /\ tasks[t].pc \in {"sleep", "fetch", "ack", "publish"}

\* An hour passes once the event loop has nothing left to run; the messages
\* `posts` arrive with the new hour (watched: posted under a running loop).
tick(posts) ==
    /\ now < MaxTime
    /\ \A t \in TaskIds : ~Ready(tasks[t])
    /\ Cardinality(history) + Cardinality(posts) <= MaxMsgs
    /\ now' = now + 1
    /\ LET new == {[channel |-> c, ts |-> now + 1, watched |-> Watching] : c \in posts}
       IN  /\ history' = history \cup new
           /\ scanCount' = [m \in history \cup new |->
                              IF m \in history THEN scanCount[m] ELSE 0]
    /\ UNCHANGED <<config, file, auto_report_task, tasks, resolvable, phase,
                   response, faults, report, scheduled, inter>>

Tick == tick({})

TickPost == \E c \in Channels : tick({c})

\* bot.get_channel(id) stops resolving (channel deleted, guild unavailable)
\* and resolves again (guild back).
channel_lost(c) ==
    /\ c \in resolvable
    /\ c \in Losable
    /\ resolvable' = resolvable \ {c}
    /\ UNCHANGED <<config, file, auto_report_task, tasks, now, history,
                   scanCount, phase, response, faults, report, scheduled, inter>>

channel_restored(c) ==
    /\ c \notin resolvable
    /\ resolvable' = resolvable \cup {c}
    /\ UNCHANGED <<config, file, auto_report_task, tasks, now, history,
                   scanCount, phase, response, faults, report, scheduled, inter>>

\* --------------------------------------------------------- specifications
Next ==
    \/ \E a \in Actors, ch \in Channels, sv \in SaveOutcomes : enable_auto_report(a, ch, sv)
    \/ \E a \in Actors, sv \in SaveOutcomes : disable_auto_report(a, sv)
    \/ \E a \in Actors, h \in Periods, sv \in SaveOutcomes : set_report_check_period(a, h, sv)
    \/ on_ready
    \/ Restart
    \/ \E t \in TaskIds : task_cancelled(t)
    \/ \E t \in TaskIds : task_start(t)
    \/ \E t \in TaskIds : task_wake(t)
    \/ \E t \in TaskIds, ok \in BOOLEAN : task_fetch(t, ok)
    \/ \E t \in TaskIds, ok \in BOOLEAN : task_publish(t, ok)
    \/ Tick
    \/ \E c \in Losable : channel_lost(c)
    \/ \E c \in Losable : channel_restored(c)

Spec == Init /\ [][Next]_vars

\* Failure-free scheduled cycles over a channel that receives messages: the
\* persisted schedule is resumed by on_ready and runs undisturbed.
NextWindow ==
    \/ on_ready
    \/ \E t \in TaskIds : task_start(t)
    \/ \E t \in TaskIds : task_wake(t)
    \/ \E t \in TaskIds : task_fetch(t, TRUE)
    \/ \E t \in TaskIds : task_ack(t, TRUE)
    \/ \E t \in TaskIds : task_publish(t, TRUE)
    \/ Tick
    \/ TickPost

SpecWindow == Init /\ [][NextWindow]_vars

\* The same cycles with the collaborator failures: the history fetch, an
\* acknowledgement or the publish may raise.
NextCycle ==
    \/ on_ready
    \/ \E t \in TaskIds : task_start(t)
    \/ \E t \in TaskIds : task_wake(t)
    \/ \E t \in TaskIds, ok \in BOOLEAN : task_fetch(t, ok)
    \/ \E t \in TaskIds, ok \in BOOLEAN : task_ack(t, ok)
    \/ \E t \in TaskIds, ok \in BOOLEAN : task_publish(t, ok)
    \/ Tick
    \/ TickPost

SpecCycle == Init /\ [][NextCycle]_vars

\* An actor invokes one of the commands that write the configuration or the
\* scheduler.
Invoke(a) ==
    \/ \E ch \in Channels, sv \in SaveOutcomes : enable_auto_report(a, ch, sv)
    \/ \E sv \in SaveOutcomes : disable_auto_report(a, sv)
    \/ \E h \in Periods, sv \in SaveOutcomes : set_report_check_period(a, h, sv)
    \/ \E h \in Hours, sv \in SaveOutcomes : set_required_work_time(a, h, sv)
    \/ \E m \in Members, sv \in SaveOutcomes : whitelist_add_cmd(a, m, sv)
    \/ \E m \in Members, sv \in SaveOutcomes : whitelist_remove_cmd(a, m, sv)
    \/ \E r \in Roles, sv \in SaveOutcomes : add_applicable_role(a, r, sv)
    \/ \E r \in Roles, sv \in SaveOutcomes : remove_applicable_role(a, r, sv)
    \/ \E m \in Members, sv \in SaveOutcomes : grant_access_user(a, m, sv)
    \/ \E m \in Members, sv \in SaveOutcomes : revoke_access_user(a, m, sv)
    \/ \E r \in Roles, sv \in SaveOutcomes : grant_access_role(a, r, sv)
    \/ \E r \in Roles, sv \in SaveOutcomes : revoke_access_role(a, r, sv)
    \/ denied(a)

\* The command layer: every actor, authorized or not, invokes the commands;
\* no time passes and no loop takes a step.
NextAccess ==
    \/ \E a \in Actors : Invoke(a)

SpecAccess == Init /\ [][NextAccess]_vars

\* On-demand and scheduled reporting alike run generate_report; here one
\* call at a time is followed through its awaits while the eligibility list
\* and the threshold are changed by commands.  The process starts from a
\* record an earlier run saved.
ReportFiles ==
    {Json([default_config EXCEPT !.required_work_time_hours = h,
                                 !.applicable_roles = ar]) :
        h \in {8, 3}, ar \in {<<>>, <<"r1">>}}

InitReport ==
    /\ file \in ReportFiles
    /\ config = load_config(file)
    /\ auto_report_task = NoHandle
    /\ tasks = [t \in TaskIds |-> NoTask]
    /\ now = 0
    /\ resolvable = Channels
    /\ history = {}
    /\ scanCount = [m \in {} |-> 0]
    /\ phase = "loaded"
    /\ response = "none"
    /\ faults = 0
    /\ report = NoReport
    /\ scheduled = NoReport
    /\ inter = NoInteraction

NextReport ==
    \/ \E rule \in Rules, msgs \in SeqsUpTo(Messages, MaxRunMsgs) : report_fetch(rule, msgs)
    \/ \E accept_ok \in BOOLEAN, reject_ok \in BOOLEAN : report_ack(accept_ok, reject_ok)
    \/ report_return
    \/ \E a \in Actors, r \in Roles, sv \in SaveOutcomes : add_applicable_role(a, r, sv)
    \/ \E a \in Actors, r \in Roles, sv \in SaveOutcomes : remove_applicable_role(a, r, sv)
    \/ \E a \in Actors, h \in Hours, sv \in SaveOutcomes : set_required_work_time(a, h, sv)

SpecReport == InitReport /\ [][NextReport]_vars

\* Startup over whatever config.json holds: every subset of the recognized
\* keys of a record an earlier run saved, no file, an unparseable file, and
\* valid JSON that is not an object.
StoredRecord ==
    [required_work_time_hours |-> 4,
     report_check_period_hours |-> 1,
     applicable_roles |-> <<"r1">>,
     auto_report_enabled |-> TRUE,
     auto_report_channel |-> "c1",
     command_access_users |-> <<"u1">>,
     command_access_roles |-> <<"r1">>,
     whitelist |-> <<"u1">>]

LoadFiles ==
    {Missing, Corrupt, NonObject}
        \cup {Json([k \in K |-> StoredRecord[k]]) : K \in SUBSET Keys}

InitLoad ==
    /\ file \in LoadFiles
    /\ config = load_config(file)
    /\ auto_report_task = NoHandle
    /\ tasks = [t \in TaskIds |-> NoTask]
    /\ now = 0
    /\ resolvable = Channels
    /\ history = {}
    /\ scanCount = [m \in {} |-> 0]
    /\ phase = IF load_config(file) = Raised THEN "crashed" ELSE "loaded"
    /\ response = "none"
    /\ faults = 0
    /\ report = NoReport
    /\ scheduled = NoReport
    /\ inter = NoInteraction

NextLoad ==
    \/ on_ready
    \/ Restart
    \/ \E t \in TaskIds : task_start(t)

SpecLoad == InitLoad /\ [][NextLoad]_vars

\* config.json written by another version of the bot or edited by hand: a
\* record that holds, besides recognized keys, a key this version does not
\* know.  The commands then run over the configuration loaded from it.
LegacyValue == 7

LegacyFiles ==
    {Json([k \in Keys \cup {"legacy_field"} |->
              IF k = "legacy_field" THEN LegacyValue ELSE default_config[k]]),
     Json([legacy_field |-> LegacyValue, required_work_time_hours |-> 3])}

InitStore ==
    /\ file \in LegacyFiles
    /\ config = load_config(file)
    /\ auto_report_task = NoHandle
    /\ tasks = [t \in TaskIds |-> NoTask]
    /\ now = 0
    /\ resolvable = Channels
    /\ history = {}
    /\ scanCount = [m \in {} |-> 0]
    /\ phase = "loaded"
    /\ response = "none"
    /\ faults = 0
    /\ report = NoReport
    /\ scheduled = NoReport
    /\ inter = NoInteraction

NextStore ==
    \/ \E a \in Actors : Invoke(a)

SpecStore == InitStore /\ [][NextStore]_vars

\* generate_report while whitelist_add and whitelist_remove put members of
\* the guild on the whitelist and take them off between its awaits.
Exemptible == {"A"}

NextExempt ==
    \/ \E rule \in Rules, msgs \in SeqsUpTo(Messages, MaxRunMsgs) : report_fetch(rule, msgs)
    \/ \E accept_ok \in BOOLEAN, reject_ok \in BOOLEAN : report_ack(accept_ok, reject_ok)
    \/ report_return
    \/ \E a \in Actors, m \in Exemptible, sv \in SaveOutcomes : whitelist_add_cmd(a, m, sv)
    \/ \E a \in Actors, m \in Exemptible, sv \in SaveOutcomes : whitelist_remove_cmd(a, m, sv)

SpecExempt == InitReport /\ [][NextExempt]_vars

\* Two generate_report calls over the same fetched window, the one of
\* check_reports and the one of a scheduled cycle: the second starts while
\* the first is between its awaits, or after it has finished and before its
\* text is sent, and the event loop interleaves their iterations.  Reactions
\* fail in the first call only, and the next check_reports is followed once
\* the scheduled call has returned.
NextRuns ==
    \/ /\ scheduled.pc = "idle"
       /\ \E rule \in Rules, msgs \in SeqsUpTo(Messages, MaxRunMsgs) : report_fetch(rule, msgs)
    \/ \E accept_ok \in BOOLEAN, reject_ok \in BOOLEAN : report_ack(accept_ok, reject_ok)
    \/ report_return
    \/ report.pc # "idle" /\ scheduled_fetch(report.rule, report.messages)
    \/ scheduled_ack(TRUE, TRUE)
    \/ scheduled_return

SpecRuns == InitReport /\ [][NextRuns]_vars

\* Duration extraction over every body of up to MaxTokens tokens: a
\* generate_report call whose window holds one message by A.
Tokens ==
    {Word("otrabotal"), Word("chasov"), Word("hello"),
     Num(9, "", 0), Num(7, ",", 5)}

Contents == SeqsUpTo(Tokens, MaxTokens)

NextExtract ==
    \/ \E rule \in Rules, c \in Contents :
          report_fetch(rule, <<[author |-> "A", content |-> c]>>)
    \/ \E accept_ok \in BOOLEAN, reject_ok \in BOOLEAN : report_ack(accept_ok, reject_ok)
    \/ report_return

SpecExtract == InitReport /\ [][NextExtract]_vars

\* generate_report started under the threshold that was loaded, with
\* set_required_work_time and add / remove_applicable_role answered at any
\* time: a run that ends under a threshold set by command has had the
\* command between its awaits.
NextRace ==
    \/ /\ config.required_work_time_hours \notin Hours
       /\ \E rule \in Rules, msgs \in SeqsUpTo(Messages, MaxRunMsgs) : report_fetch(rule, msgs)
    \/ \E accept_ok \in BOOLEAN, reject_ok \in BOOLEAN : report_ack(accept_ok, reject_ok)
    \/ report_return
    \/ \E a \in Actors, r \in Roles, sv \in SaveOutcomes : add_applicable_role(a, r, sv)
    \/ \E a \in Actors, r \in Roles, sv \in SaveOutcomes : remove_applicable_role(a, r, sv)
    \/ \E a \in Actors, h \in Hours, sv \in SaveOutcomes : set_required_work_time(a, h, sv)

SpecRace == InitReport /\ [][NextRace]_vars

\* generate_report under the thresholds set_required_work_time accepts: its
\* `hours: float` is stored as given, zero included.  The window holds a
\* claim of nine hours and a claim of zero hours, and every reaction is
\* placed.
Thresholds == {0, 4}

Worked0 == <<Word("worked"), Num(0, "", 0), Word("hours")>>

ThresholdMessages ==
    {[author |-> "A", content |-> Worked9],
     [author |-> "B", content |-> Worked0]}

NextThreshold ==
    \/ \E rule \in Rules, msgs \in SeqsUpTo(ThresholdMessages, MaxRunMsgs) : report_fetch(rule, msgs)
    \/ report_ack(TRUE, TRUE)
    \/ report_return
    \/ \E a \in Actors, h \in Thresholds, sv \in SaveOutcomes : set_required_work_time(a, h, sv)

SpecThreshold == InitReport /\ [][NextThreshold]_vars

\* config.json edited by hand so that an id stands twice in a list: json.load
\* returns the list as written and load_config does not look into it.
DuplicateFiles ==
    {Json([default_config EXCEPT !.command_access_users = <<"u1", "u1">>,
                                 !.whitelist = <<"u1", "u1">>])}

InitLists ==
    /\ file \in DuplicateFiles
    /\ config = load_config(file)
    /\ auto_report_task = NoHandle
    /\ tasks = [t \in TaskIds |-> NoTask]
    /\ now = 0
    /\ resolvable = Channels
    /\ history = {}
    /\ scanCount = [m \in {} |-> 0]
    /\ phase = "loaded"
    /\ response = "none"
    /\ faults = 0
    /\ report = NoReport
    /\ scheduled = NoReport
    /\ inter = NoInteraction

SpecLists == InitLists /\ [][NextStore]_vars

\* The two commands that defer and then answer: check_reports, with its
\* generate_report call followed through its iterations, and
\* mention_not_in_channel over every set of members in voice.
NextInteract ==
    \/ \E a \in Actors, cmd \in {"check_reports", "mention_not_in_channel"} : invoke(a, cmd)
    \/ \E rule \in Rules, msgs \in SeqsUpTo(Messages, MaxRunMsgs) : check_reports_fetch(rule, msgs)
    \/ /\ inter.pc = "report"
       /\ \E accept_ok \in BOOLEAN, reject_ok \in BOOLEAN : report_ack(accept_ok, reject_ok)
    \/ check_reports_send
    \/ \E in_voice \in SUBSET RosterIds : mention_not_in_channel(in_voice)
    \/ interaction_end

SpecInteract == InitReport /\ [][NextInteract]_vars

\* ================================================================= claims
LiveLoops == {t \in TaskIds : Live(tasks[t])}

Created(t) == tasks[t].pc # "start" /\ tasks'[t].pc = "start"

\* The persisted record says enabled.
FileEnabled ==
    /\ file.kind = "json"
    /\ "auto_report_enabled" \in DOMAIN file.obj
    /\ file.obj.auto_report_enabled

\* A field of the persisted record, the documented default when it is absent.
Persisted(key) ==
    IF file.kind = "json" /\ key \in DOMAIN file.obj
    THEN file.obj[key]
    ELSE default_config[key]

\* The configured destination is unset or does not resolve.
Unresolved ==
    \/ config.auto_report_channel = None
    \/ config.auto_report_channel \notin resolvable

\* C1: after any interleaving of enable_auto_report, disable_auto_report and
\* on_ready at most one scheduling loop can still fetch or publish, and it is
\* the one the handle names (a loop whose cancellation is pending only ends).
C1_AtMostOneLiveLoop ==
    /\ Cardinality(LiveLoops) <= 1
    /\ \A t \in LiveLoops : auto_report_task = t

\* C1 witness: enable_auto_report was answered for destination c2 while the
\* loop that fetched from c1 is still the only live one.
C1_Witness ==
    /\ response = "sent"
    /\ config.auto_report_channel = "c2"
    /\ \E t \in TaskIds :
        /\ LiveLoops = {t}
        /\ tasks[t].pc = "fetch"
        /\ tasks[t].channel = "c1"

\* C2 (as claimed): a loop that was sleeping when disable_auto_report was
\* invoked never fetches or publishes afterwards.
C2_NoRunAfterDisable ==
    \A t \in TaskIds :
        tasks[t].disable_invoked => tasks[t].pc \notin {"fetch", "ack", "publish"}

\* C3 (as claimed): while auto-report is enabled, a failed fetch, acknowledgement
\* or publish abandons the cycle only; the scheduling loop is never left dead.
C3_FailureKeepsLoop ==
    \A t \in TaskIds : config.auto_report_enabled => tasks[t].pc # "failed"

\* C4: when the record persisted at startup says enabled and no command has
\* been issued since, on_ready leaves a live loop behind, the loop sleeps for
\* the persisted period and reports to the persisted destination.
C4_ResumeFromStore ==
    [][(response = "none" /\ response' = "none" /\ FileEnabled) =>
        /\ (phase = "loaded" /\ phase' = "ready") =>
              /\ auto_report_task' # NoHandle
              /\ Live(tasks'[auto_report_task'])
        /\ \A t \in TaskIds :
              (tasks[t].pc = "start" /\ tasks'[t].pc \in {"sleep", "done"}) =>
                  /\ tasks'[t].pc = "sleep"
                  /\ tasks'[t].period = Persisted("report_check_period_hours")
                  /\ tasks'[t].wakeAt = now + Persisted("report_check_period_hours")
        /\ \A t \in TaskIds :
              (tasks[t].pc = "sleep" /\ tasks'[t].pc = "fetch") =>
                  tasks'[t].channel = Persisted("auto_report_channel")]_vars

\* C4 witness: no command since startup, and the resumed loop is fetching
\* from the persisted destination.
C4_Witness ==
    /\ response = "none"
    /\ phase = "ready"
    /\ FileEnabled
    /\ auto_report_task # NoHandle
    /\ tasks[auto_report_task].pc = "fetch"
    /\ tasks[auto_report_task].channel = Persisted("auto_report_channel")
    /\ tasks[auto_report_task].period = Persisted("report_check_period_hours")

\* C5: whatever command an actor whom allowed_check rejects invokes, the
\* in-memory config, the persisted record, the task handle and the loops are
\* left as they were.
C5_DeniedChangesNothing ==
    [][\A a \in Actors :
        (~allowed_check(a) /\ Invoke(a)) =>
            UNCHANGED <<config, file, auto_report_task, tasks>>]_vars

\* C5 witness: an actor without access has just been refused while
\* auto-report is enabled with a loop behind the handle.
C5_Witness ==
    /\ response = "denied"
    /\ config.auto_report_enabled
    /\ auto_report_task # NoHandle
    /\ \E a \in Actors : ~allowed_check(a)

\* C6 (as claimed): a wake enters the pipeline, and a publish completes, only
\* in a state where auto_report_enabled is true.
C6_RunOnlyIfEnabled ==
    [][\A t \in TaskIds :
        /\ (tasks[t].pc = "sleep" /\ tasks'[t].pc = "fetch") => config.auto_report_enabled
        /\ (tasks[t].pc = "publish" /\ tasks'[t].pc \in {"sleep", "done"}) =>
              config.auto_report_enabled]_vars

\* C7 (as claimed): once a cycle's fetch has completed, every message posted in
\* the destination channel under the running loop and no later than that
\* cycle's wake has been returned by exactly one scheduled fetch.
C7_WindowsTile ==
    \A t \in TaskIds :
        tasks[t].pc \in {"ack", "publish"} =>
            \A m \in history :
                (/\ m.channel = tasks[t].channel
                 /\ m.watched
                 /\ m.ts <= tasks[t].after + tasks[t].period) => scanCount[m] = 1

\* C8: an enable_auto_report call that creates a loop has, in the same call,
\* written enabled = true and its destination to the record without the save
\* raising; a call whose save raises creates no loop.
C8_PersistBeforeStart ==
    [][\A ch \in Channels :
        ((\E a \in Actors, sv \in SaveOutcomes : enable_auto_report(a, ch, sv))
            /\ (\E t \in TaskIds : Created(t))) =>
                /\ faults' = faults
                /\ file' = Json(config')
                /\ file'.obj.auto_report_enabled
                /\ file'.obj.auto_report_channel = ch]_vars

\* C8 witness: enable_auto_report(c2) has just created the loop and the record
\* holds enabled = true with destination c2.
C8_Witness ==
    /\ response = "sent"
    /\ auto_report_task # NoHandle
    /\ tasks[auto_report_task].pc = "start"
    /\ file = Json(config)
    /\ config.auto_report_enabled
    /\ config.auto_report_channel = "c2"

\* C9: a disable_auto_report call that requests the cancellation of the loop
\* (or drops the handle) has already written enabled = false to the record.
C9_PersistBeforeTeardown ==
    [][((\E a \in Actors, sv \in SaveOutcomes : disable_auto_report(a, sv))
          /\ \/ auto_report_task' # auto_report_task
             \/ \E t \in TaskIds : ~tasks[t].must_cancel /\ tasks'[t].must_cancel) =>
                /\ faults' = faults
                /\ file' = Json(config')
                /\ ~file'.obj.auto_report_enabled]_vars

\* C9 witness: the cancellation of a loop is pending and the record says
\* enabled = false.
C9_Witness ==
    /\ response = "sent"
    /\ auto_report_task = NoHandle
    /\ \E t \in TaskIds : tasks[t].must_cancel
    /\ file = Json(config)
    /\ ~config.auto_report_enabled

\* C10: a wake that finds the destination unset or unresolved fetches and
\* publishes nothing, leaves the configuration as it is and, auto-report being
\* enabled, puts the loop back to sleep for the configured period; a wake that
\* finds it resolved starts the fetch from it.
C10_SkipKeepsLoop ==
    [][\A t \in TaskIds :
        task_wake(t) =>
            /\ config' = config /\ file' = file /\ scanCount' = scanCount
            /\ (Unresolved /\ config.auto_report_enabled) =>
                  /\ Live(tasks'[t])
                  /\ tasks'[t].pc = "sleep"
                  /\ tasks'[t].wakeAt = now + config.report_check_period_hours
                  /\ auto_report_task' = auto_report_task
            /\ ~Unresolved =>
                  /\ tasks'[t].pc = "fetch"
                  /\ tasks'[t].channel = config.auto_report_channel]_vars

\* C10 witness: auto-report is enabled and a loop that skipped a cycle has
\* since published a report.
C10_Witness ==
    /\ config.auto_report_enabled
    /\ \E t \in TaskIds : Live(tasks[t]) /\ tasks[t].skipped = "recovered"


\* C11: a set_report_check_period issued while a loop sleeps leaves the sleep
\* in progress as it was (same wake time, same period local); the wake comes
\* at that time and its window reaches back by the period read when the
\* cycle began; the next cycle, begun after the publish, sleeps for the
\* period then in config.
C11_PeriodChangeNextCycle ==
    [][\A t \in TaskIds :
        /\ (/\ tasks[t].pc = "sleep" /\ tasks'[t].pc = "sleep"
            /\ config'.report_check_period_hours # config.report_check_period_hours)
           => (tasks'[t].wakeAt = tasks[t].wakeAt /\ tasks'[t].period = tasks[t].period)
        /\ (tasks[t].pc = "sleep" /\ tasks'[t].pc = "fetch")
           => (now = tasks[t].wakeAt /\ tasks'[t].after = now - tasks[t].period)
        /\ (tasks[t].pc = "publish" /\ tasks'[t].pc = "sleep")
           => (/\ tasks'[t].period = config.report_check_period_hours
               /\ tasks'[t].wakeAt = now + config.report_check_period_hours)]_vars

\* C11 witness: a loop woke after the period was changed during its sleep:
\* its window is the old period long while config holds the new one.
C11_Witness ==
    \E t \in TaskIds :
        /\ Live(tasks[t])
        /\ tasks[t].pc = "fetch"
        /\ tasks[t].period # config.report_check_period_hours
        /\ tasks[t].after = now - tasks[t].period


\* generate_report has just built its three lists.
Classified == report.pc # "done" /\ report'.pc = "done"

Ids(entries) == {entries[k].id : k \in 1..Len(entries)}

ListedIn(r, name) ==
    CASE name = "worked_enough" -> Ids(r.worked_enough)
      [] name = "worked_insufficient" -> Ids(r.worked_insufficient)
      [] name = "not_worked" -> Ids(r.not_worked)

RosterOf(id) == CHOOSE m \in {Roster[k] : k \in 1..Len(Roster)} : m.id = id

\* C12: in every report built, for every totals map and eligibility list, no
\* member is listed twice, the three lists are pairwise disjoint, and
\* together they hold exactly the members that are not bots and are
\* applicable.
C12_BucketsPartition ==
    [][Classified =>
        LET r == report'
            met == Ids(r.worked_enough)
            below == Ids(r.worked_insufficient)
            none == Ids(r.not_worked)
        IN  /\ Cardinality(met) = Len(r.worked_enough)
            /\ Cardinality(below) = Len(r.worked_insufficient)
            /\ Cardinality(none) = Len(r.not_worked)
            /\ met \cap below = {} /\ met \cap none = {} /\ below \cap none = {}
            /\ met \cup below \cup none =
                 {id \in RosterIds : ~RosterOf(id).bot /\ is_applicable(RosterOf(id))}]_vars

\* C12 witness: a report built from totals that include a bot's claim, with
\* one member listed as having worked and another as not having worked.
C12_Witness ==
    /\ report.pc = "done"
    /\ Get(report.work_times, "C") > 0
    /\ Len(report.worked_enough) + Len(report.worked_insufficient) >= 1
    /\ Len(report.not_worked) >= 1

\* C13: in every report built, a listed member whose total equals
\* required_work_time_hours * 60 is in worked_enough, one whose total is
\* strictly between 0 and that is in worked_insufficient, and one whose
\* total is 0 under a positive threshold is in not_worked.
C13_InclusiveThreshold ==
    [][Classified =>
        \A id \in RosterIds :
            LET r == report'
                total == Get(r.work_times, id)
                required_minutes == config.required_work_time_hours * 60
            IN  listed(RosterOf(id)) =>
                  /\ total = required_minutes => id \in Ids(r.worked_enough)
                  /\ (0 < total /\ total < required_minutes) =>
                        id \in Ids(r.worked_insufficient)
                  /\ (total = 0 /\ required_minutes > 0) => id \in Ids(r.not_worked)]_vars

\* C13 witness: a member listed in worked_enough with exactly the required
\* minutes.
C13_Witness ==
    /\ report.pc = "done"
    /\ \E k \in 1..Len(report.worked_enough) :
          /\ report.worked_enough[k].total = report.required * 60
          /\ report.worked_enough[k].total > 0

\* The scenario of C14: A wrote "worked 9 hours", B wrote "worked 3 hours",
\* 8 hours are required and A and B are both applicable.
Scenario ==
    /\ Classified
    /\ report'.messages = <<[author |-> "A", content |-> Worked9],
                            [author |-> "B", content |-> Worked3]>>
    /\ config.required_work_time_hours = 8
    /\ is_applicable(RosterOf("A"))
    /\ is_applicable(RosterOf("B"))

ScenarioReport ==
    /\ report'.worked_enough = <<[id |-> "A", total |-> 540]>>
    /\ report'.worked_insufficient = <<[id |-> "B", total |-> 180]>>
    /\ report'.not_worked = <<>>

Eligible(cfg, member) ==
    \/ cfg.applicable_roles = <<>>
    \/ \E k \in 1..Len(cfg.applicable_roles) : cfg.applicable_roles[k] \in member.roles

\* C16: is_applicable(member) is true exactly when applicable_roles is empty
\* or holds one of the member's roles, in every config the add and remove
\* commands reach; and a report built while the list is empty lists every
\* member that is not a bot.
C16_EligibleIffEmptyOrRole ==
    [][/\ \A id \in RosterIds :
            /\ is_applicable(RosterOf(id)) <=> Eligible(config, RosterOf(id))
            /\ is_applicable(RosterOf(id))' <=> Eligible(config', RosterOf(id))
       /\ (Classified /\ config.applicable_roles = <<>>) =>
            \A id \in RosterIds :
                ~RosterOf(id).bot =>
                    \E name \in {"worked_enough", "worked_insufficient", "not_worked"} :
                        id \in ListedIn(report', name)]_vars

\* C16 witness: a report built with applicable_roles empty after a command
\* was answered, listing the member that holds no role.
C16_Witness ==
    /\ report.pc = "done"
    /\ response = "sent"
    /\ config.applicable_roles = <<>>
    /\ file.kind = "json" /\ file.obj.applicable_roles = <<>>
    /\ \E name \in {"worked_enough", "worked_insufficient", "not_worked"} :
          "A" \in ListedIn(report, name)

\* C17 (as claimed): no failure of an add_reaction makes generate_report
\* leave its loop over the messages without producing the report.
C17_AckFailureKeepsRun ==
    report.pc # "failed"


Range(list) == {list[k] : k \in 1..Len(list)}

\* What C15 says allowed_check is, over the config cfg.
Authorized(cfg, a) ==
    \/ a.administrator
    \/ a.id \in Range(cfg.command_access_users)
    \/ a.roles \cap Range(cfg.command_access_roles) # {}

\* C15: allowed_check(a) is true exactly for an administrator, an actor whose
\* id is in command_access_users or one holding a role of
\* command_access_roles, read from config as it is when the command is
\* invoked: every invocation is refused exactly when that fails for the
\* config before it, and the check agrees with the config a grant or revoke
\* has just left.
C15_AllowedIffGranted ==
    [][\A a \in Actors :
        /\ allowed_check(a) <=> Authorized(config, a)
        /\ allowed_check(a)' <=> Authorized(config', a)
        /\ (~Authorized(config, a) /\ Invoke(a)) => response' = "denied"
        /\ (response' = "denied" /\ Invoke(a)) => ~Authorized(config, a)]_vars

\* C15 witness: a member without the administrator permission passes the
\* check through a grant, and commands have been answered since (the access
\* list and the whitelist have both been written).
C15_Witness ==
    /\ response = "sent"
    /\ \E a \in Actors : ~a.administrator /\ allowed_check(a)
    /\ config.whitelist # <<>>
    /\ config.command_access_users # <<>> \/ config.command_access_roles # <<>>

\* C18: every command that changes config or the file and answers with its
\* success message leaves config.json holding exactly the dict in memory.
C18_SavedEqualsMemory ==
    [][(response' = "sent" /\ (config' # config \/ file' # file)) =>
            file' = Json(config')]_vars

\* C18 witness: a command has succeeded and the stored record equals the
\* dict in memory, which is no longer the default one.
C18_Witness ==
    /\ response = "sent"
    /\ file = Json(config)
    /\ config.command_access_users # <<>>
    /\ config.required_work_time_hours # 8


\* C19 (as claimed): whatever happens to a save, the record load_config
\* would read afterwards is the one it would have read before the save or
\* the dict being saved.
C19_SaveAtomic ==
    [][\/ load_config(file') = load_config(file)
       \/ load_config(file') = config']_vars

\* C20 (as claimed): for every content of config.json load_config returns,
\* and what it returns holds every recognized key, with the stored value
\* where the file has one.
C20_LoadNeverFails ==
    /\ phase # "crashed"
    /\ Keys \subseteq DOMAIN config
    /\ file.kind = "json" => \A k \in DOMAIN file.obj : config[k] = file.obj[k]


\* C21: a key of the stored record that the program does not recognize is
\* taken over by load_config and written back, with its value, by every
\* save a mutating command makes afterwards; the configuration in memory
\* holds it throughout.
C21_UnknownFieldsSurvive ==
    [][/\ "legacy_field" \in DOMAIN config'
       /\ config'.legacy_field = LegacyValue
       /\ (file' # file /\ file'.kind = "json") =>
              /\ "legacy_field" \in DOMAIN file'.obj
              /\ file'.obj.legacy_field = LegacyValue]_vars

\* Several commands have saved since the load, and the record on disk still
\* holds the unknown key.
C21_Witness ==
    /\ file.kind = "json"
    /\ file \notin LegacyFiles
    /\ response = "sent"
    /\ file.obj.whitelist # <<>>
    /\ file.obj.required_work_time_hours = 4
    /\ file.obj.legacy_field = LegacyValue

\* C22: the whitelist has no effect on generate_report.  Whenever a step
\* changes nothing of the configuration but the whitelist, the three lists
\* and the threshold that generate_report would produce from the totals of
\* the run in progress are the same before and after the step.
C22_WhitelistIgnored ==
    [][(/\ report' = report
        /\ config'.whitelist # config.whitelist
        /\ \A k \in Keys \ {"whitelist"} : config'[k] = config[k])
       => Finish(report)' = Finish(report)]_vars

\* A member with an accepted claim is on the whitelist when the lists are
\* built, and is listed all the same.
C22_Witness ==
    /\ report.pc = "done"
    /\ Contains(config.whitelist, "A")
    /\ \E e \in Range(report.worked_enough) : e.id = "A"

\* C23: a message is marked accepted exactly when its claim was added to
\* its author's total, and rejected exactly when nothing was added: no
\* message both contributes minutes and is marked rejected.
C23_AckIffCounted ==
    [][(report.pc = "scan" /\ Len(report'.outcomes) = Len(report.outcomes) + 1) =>
          LET mark == report'.outcomes[Len(report'.outcomes)]
              added == report'.work_times # report.work_times
          IN  /\ (mark = "accepted") <=> added
              /\ (mark = "rejected") <=> ~added]_vars

\* generate_report has ended, by returning the report or by raising.
Ended == report.pc \in {"done", "failed"}

\* C24: when a reporting run has ended, every message of the fetched window
\* has exactly one outcome, accepted or rejected, and a message that holds
\* no claim is rejected.
C24_EveryMessageOneOutcome ==
    Ended =>
        /\ Len(report.outcomes) = Len(report.messages)
        /\ \A k \in 1..Len(report.outcomes) :
              /\ report.outcomes[k] \in {"accepted", "rejected"}
              /\ ~search(report.rule, report.messages[k].content).found
                    => report.outcomes[k] = "rejected"

\* 60 times the hours claimed in those of the first k messages of run r
\* that are by author and whose index is in K.
RECURSIVE ClaimedMinutes(_, _, _, _)
ClaimedMinutes(r, author, k, K) ==
    IF k = 0 THEN 0
    ELSE ClaimedMinutes(r, author, k - 1, K)
            + (IF r.messages[k].author = author /\ k \in K
               THEN minutes(search(r.rule, r.messages[k].content))
               ELSE 0)

\* C25: in the report a run returns, each author's total is 60 times the
\* sum of the hours claimed in that author's accepted messages, a sum that
\* does not depend on the order of the messages.
C25_TotalIsSumOfAccepted ==
    report.pc = "done" =>
        LET accepted == {k \in 1..Len(report.messages) : report.outcomes[k] = "accepted"}
        IN  \A a \in RosterIds :
              Get(report.work_times, a)
                  = ClaimedMinutes(report, a, Len(report.messages), accepted)

\* What one generate_report call over the messages of r computes on its
\* own: per author, the minutes of the claims found in that author's
\* messages.
SingleRunTotals(r) ==
    [a \in RosterIds |->
        ClaimedMinutes(r, a, Len(r.messages),
            {k \in 1..Len(r.messages) : search(r.rule, r.messages[k].content).found})]

TotalsOf(r) == [a \in RosterIds |-> Get(r.work_times, a)]

\* C26: reporting runs share no aggregation state.  Of two runs over the
\* same messages, sequential or interleaved at their awaits, each returns
\* the totals a single run computes: nothing is counted twice.
C26_RunsShareNoTotals ==
    /\ report.pc = "done" => TotalsOf(report) = SingleRunTotals(report)
    /\ scheduled.pc = "done" => TotalsOf(scheduled) = SingleRunTotals(scheduled)
    /\ (report.pc = "done" /\ scheduled.pc = "done"
            /\ scheduled.messages = report.messages /\ scheduled.rule = report.rule)
          => scheduled.work_times = report.work_times

\* Both runs finished after having been in the loop at the same time is
\* not visible in one state; this state is: both runs have counted the
\* first of two messages and neither has finished.
C26_Witness ==
    /\ report.pc = "scan" /\ report.i = 2
    /\ scheduled.pc = "scan" /\ scheduled.i = 2
    /\ Get(report.work_times, "A") = 540
    /\ Get(scheduled.work_times, "A") = 540

\* The body holds no digit: none of its tokens is a number.
NoDigit(content) == \A i \in 1..Len(content) : content[i].kind # "num"

\* C27: under both extraction rules a message whose text holds no digit
\* yields no claim: the iteration that handles it adds nothing to any total
\* and takes the rejecting branch, so the message is marked rejected (or the
\* rejecting reaction itself raised) and is never marked accepted.
C27_NoDigitNoClaim ==
    [][(report.pc = "scan" /\ report' # report
            /\ NoDigit(report.messages[report.i].content)) =>
          /\ report'.work_times = report.work_times
          /\ \/ report'.pc = "failed"
             \/ report'.outcomes = Append(report.outcomes, "rejected")]_vars

\* A message that names a work verb and an hour word but no number has been
\* rejected under the verb-anchored rule, and the totals are empty.
C27_Witness ==
    /\ report.pc = "done"
    /\ report.rule = "work_verb"
    /\ report.messages = <<[author |-> "A", content |-> <<Word("otrabotal"), Word("chasov")>>]>>
    /\ report.outcomes = <<"rejected">>
    /\ report.work_times = NoReport.work_times

\* C28: in the report a run returns, the threshold printed is the one every
\* listed member was classified with, and one eligibility list decided for
\* every member whether it is listed, also when set_required_work_time and
\* add / remove_applicable_role were answered between the awaits of the run.
C28_OneThresholdOneList ==
    report.pc = "done" =>
        /\ \A name \in {"worked_enough", "worked_insufficient", "not_worked"} :
              \A id \in ListedIn(report, name) :
                 bucket_of(Get(report.work_times, id), report.required * 60) = name
        /\ \E L \in SeqsUpTo(Roles, Cardinality(Roles)) :
              ListedIn(report, "worked_enough") \cup ListedIn(report, "worked_insufficient")
                    \cup ListedIn(report, "not_worked")
                 = {id \in RosterIds :
                      ~RosterOf(id).bot /\ Eligible([applicable_roles |-> L], RosterOf(id))}

\* A run of two messages that started under a loaded threshold has returned
\* a report under the threshold a command set meanwhile.
C28_Witness ==
    /\ report.pc = "done"
    /\ Len(report.outcomes) = 2
    /\ report.required \in Hours
    /\ Len(report.worked_enough) >= 1

\* The messages of run r by author id that were marked accepted.
AcceptedOf(r, id) ==
    {k \in 1..Len(r.outcomes) : r.messages[k].author = id /\ r.outcomes[k] = "accepted"}

\* C29: in the report a run returns, whatever the required hours were set
\* to, a listed member with an accepted message is not in not_worked, and a
\* member in worked_enough has an accepted message.
C29_BucketsFollowAccepted ==
    report.pc = "done" =>
        \A id \in RosterIds :
            /\ (id \in ListedIn(report, "not_worked")) => AcceptedOf(report, id) = {}
            /\ (id \in ListedIn(report, "worked_enough")) => AcceptedOf(report, id) # {}

ListKeys == {"command_access_users", "command_access_roles", "applicable_roles", "whitelist"}

C31_ValidResponseSequence ==
    (inter.pc = "answered" /\ inter.allowed) =>
        /\ inter.initial_calls = 1
        /\ inter.cmd = "check_reports" => inter.sent = <<"report">>
        /\ inter.cmd = "mention_not_in_channel" =>
              inter.sent \in {<<"all_present">>, <<"mentions">>}
====
